---------------------------- MODULE Spec2Model ----------------------------
(***************************************************************************)
(* Model of core/src/svg.rs: the Svg draw request, the Handle of Svg data  *)
(* (an Id by value plus an Arc<Data>), its constructors, accessors,        *)
(* conversions and its Hash / PartialEq implementations.                   *)
(*                                                                         *)
(* image::Id lives in core/src/image.rs, which is not part of the sources  *)
(* at hand; Id_path, Id_unique and Id_hash follow its description.         *)
(***************************************************************************)
EXTENDS Integers, Sequences, FiniteSets, TLC

(***************************************************************************)
(* Bounds of the model.                                                    *)
(***************************************************************************)
MaxHandles == 2     \* Handle values held by callers at one time
MaxUnique == 2      \* Id::unique() calls explored (NEXT_ID is a u64)

\* every Handle value owns one reference; one more is held inside the Svg
MaxArcs == MaxHandles + 1

(***************************************************************************)
(* Inputs.  A path is its sequence of components; component CurDir is ".". *)
(***************************************************************************)
CurDir == 0

PathInputs ==
    { <<1>>, <<2>>, <<2, 1>>, <<2, CurDir, 1>> }

ByteInputs == { <<>>, <<60, 115>> }

TreeInputs == { <<1>> }

ColorInputs == { "RED", "BLUE" }

RotationInputs == { 0, 157 }            \* hundredths of a radian

OpacityInputs == { -50, 50, 150 }       \* hundredths; 100 is 1.0

(***************************************************************************)
(* image::Id                                                               *)
(***************************************************************************)
\* The hash has a fixed width.  Paths are unbounded, so some distinct paths
\* share a hash whatever the width; HashBits is kept small so that the
\* inputs above hold such a pair (<<2>> and <<2, 1>>).
HashBits == 2

HashSpace == 2 ^ HashBits

\* Path's Hash skips separators and "." components after the first one.
RECURSIVE Normalize(_)
Normalize(p) ==
    IF Len(p) <= 1 THEN p
    ELSE LET init == Normalize(SubSeq(p, 1, Len(p) - 1))
             last == p[Len(p)]
         IN  IF last = CurDir THEN init ELSE Append(init, last)

RECURSIVE Hasher(_)
Hasher(words) ==
    IF words = <<>> THEN 0
    ELSE (Hasher(SubSeq(words, 1, Len(words) - 1)) * 3
          + words[Len(words)] + 1) % HashSpace

Id_path(path) == [kind |-> "Hash", v |-> Hasher(Normalize(path))]

Id_unique(next) == [kind |-> "Unique", v |-> next]

Id_hash(id, state) == state \o << id.kind, id.v >>

NoId == [kind |-> "None", v |-> 0]

(***************************************************************************)
(* Data                                                                    *)
(***************************************************************************)
Data_Path(path) == [variant |-> "Path", content |-> path]

Data_Bytes(bytes) == [variant |-> "Bytes", content |-> bytes]

Data_Tree(tree) == [variant |-> "Tree", content |-> tree]

NoData == [variant |-> "None", content |-> <<>>]

(***************************************************************************)
(* State                                                                   *)
(***************************************************************************)
VARIABLES
    handles,    \* the Handle values callers hold, in a sequence
    svg,        \* the Svg draw request being built, or NoSvg
    arcs,       \* the Arc<Data> allocations: strong count and payload
    NEXT_ID,    \* the counter behind Id::unique()
    issued,     \* history: every Id handed out so far
    born,       \* history: Id and Data each live allocation was built with
    calls,      \* history: the last builder argument per Svg field
    ret         \* the last state-changing operation and its arguments

vars == << handles, svg, arcs, NEXT_ID, issued, born, calls, ret >>

NoHandle == [id |-> NoId, data |-> 0]

None == <<>>

Some(x) == << x >>

RotationZero == 0

OpacityOne == 100

NoSvg == [handle |-> NoHandle, color |-> None, rotation |-> RotationZero,
          opacity |-> 0]

NoCalls == [color |-> None, rotation |-> None, opacity |-> None]

FreeArc == [strong |-> 0, data |-> NoData]

NoBirth == [id |-> NoId, data |-> NoData]

Ret(op, arg) == [op |-> op, arg |-> arg]

Init ==
    /\ handles = <<>>
    /\ svg = NoSvg
    /\ arcs = [k \in 1..MaxArcs |-> FreeArc]
    /\ NEXT_ID = 0
    /\ issued = {}
    /\ born = [k \in 1..MaxArcs |-> NoBirth]
    /\ calls = NoCalls
    /\ ret = Ret("init", <<>>)

LiveHandle(i) == i \in DOMAIN handles

Room == Len(handles) < MaxHandles

Remove(hs, i) == SubSeq(hs, 1, i - 1) \o SubSeq(hs, i + 1, Len(hs))

LiveSvg == svg # NoSvg

FreeArcSlot(k) ==
    /\ arcs[k].strong = 0
    /\ \A j \in 1..MaxArcs : j < k => arcs[j].strong # 0

(***************************************************************************)
(* Arc<Data>.  An address carries no meaning, so after every operation the *)
(* allocations are renumbered in the order their first holder appears      *)
(* (handles by slot, then the Svg); allocations with no holder follow.     *)
(***************************************************************************)
Arc_new(heap, k, payload) ==
    [heap EXCEPT ![k] = [strong |-> 1, data |-> payload]]

\* Faulty variant: the clone copies the pointer without counting it.
Arc_clone_uncounted(heap, k) == heap

Arc_clone(heap, k) == [heap EXCEPT ![k].strong = @ + 1]

Arc_drop(heap, k) ==
    IF heap[k].strong = 1 THEN [heap EXCEPT ![k] = FreeArc]
    ELSE [heap EXCEPT ![k].strong = @ - 1]

BornAfterDrop(k) ==
    IF arcs[k].strong = 1 THEN [born EXCEPT ![k] = NoBirth] ELSE born

Refs(hs, sv) ==
    [n \in 1..(Len(hs) + 1) |->
        IF n <= Len(hs) THEN hs[n].data ELSE sv.handle.data]

Key(refs, heap, k) ==
    IF \E n \in DOMAIN refs : refs[n] = k
    THEN CHOOSE n \in DOMAIN refs :
            refs[n] = k /\ \A m \in DOMAIN refs : m < n => refs[m] # k
    ELSE IF heap[k].strong > 0 THEN MaxHandles + 1 + k
    ELSE MaxHandles + 1 + MaxArcs + k

RankOf(key) ==
    [k \in 1..MaxArcs |->
        Cardinality({ j \in 1..MaxArcs : key[j] <= key[k] })]

Ranks(refs, heap) == RankOf([k \in 1..MaxArcs |-> Key(refs, heap, k)])

Moved(h, rank) ==
    IF h.data = 0 THEN h ELSE [h EXCEPT !.data = rank[h.data]]

Renumbered(f, rank) ==
    [r \in 1..MaxArcs |-> f[CHOOSE k \in 1..MaxArcs : rank[k] = r]]

Commit(hs, sv, heap, births) ==
    \E rank \in { Ranks(Refs(hs, sv), heap) } :
    /\ handles' = [i \in DOMAIN hs |-> Moved(hs[i], rank)]
    /\ svg' = [sv EXCEPT !.handle = Moved(sv.handle, rank)]
    /\ arcs' = Renumbered(heap, rank)
    /\ born' = Renumbered(births, rank)

(***************************************************************************)
(* Handle                                                                  *)
(***************************************************************************)
UsesUnique(payload) == payload.variant \in {"Bytes", "Tree"}

\* Faulty variant: every handle, path handles included, takes the next unique Id.
from_data_id_unique(payload, next) == Id_unique(next)

\* Faulty variant: in-memory bytes are identified by their content.
from_data_id_content(payload, next) ==
    IF payload.variant = "Tree" THEN Id_unique(next)
    ELSE Id_path(payload.content)

from_data_id(payload, next) ==
    IF payload.variant = "Path" THEN Id_path(payload.content)
    ELSE Id_unique(next)

\* Faulty variant: the Id is the address of the allocation.
from_data_address(payload, next, k) ==
    [id |-> [kind |-> "Hash", v |-> k], data |-> k]

from_data(payload, next, k) ==
    [id |-> from_data_id(payload, next), data |-> k]

Handle_id(h) == h.id

Handle_data(h, heap) == heap[h.data].data

\* Faulty variant: a clone is given an Id of its own.
Handle_clone_reissued(h) == [id |-> Id_unique(h.data), data |-> h.data]

Handle_clone(h) == [id |-> h.id, data |-> h.data]

Handle_hash(h, state) == Id_hash(h.id, state)

\* Faulty variant: equality as #[derive(PartialEq)] would compare it, field by field.
Handle_eq_derived(a, b) == a.id = b.id /\ a.data = b.data

Handle_eq(a, b) == a.id = b.id

\* The state change of from_data: one Arc::new, at most one Id::unique().
Construct(op, payload, arg) ==
    /\ Room
    /\ UsesUnique(payload) => NEXT_ID < MaxUnique
    /\ \E k \in 1..MaxArcs :
        /\ FreeArcSlot(k)
        /\ LET h == from_data(payload, NEXT_ID, k) IN
            /\ Commit(Append(handles, h), svg,
                      Arc_new(arcs, k, payload),
                      [born EXCEPT ![k] = [id |-> h.id, data |-> payload]])
            /\ issued' = issued \cup {h.id}
    /\ NEXT_ID' = IF UsesUnique(payload) THEN NEXT_ID + 1 ELSE NEXT_ID
    /\ ret' = Ret(op, arg)
    /\ UNCHANGED calls

\* Faulty variant: the path is checked, and nothing is built for a missing file.
from_path_checked(path, exists) ==
    IF exists
    THEN Construct("from_path", Data_Path(path), << path, exists >>)
    ELSE /\ ret' = Ret("from_path", << path, exists >>)
         /\ UNCHANGED << handles, svg, arcs, NEXT_ID, issued, born, calls >>

\* exists: whether a readable SVG file is at the path (never consulted).
from_path(path, exists) ==
    /\ exists \in BOOLEAN
    /\ Construct("from_path", Data_Path(path), << path, exists >>)

from_memory(bytes) ==
    /\ bytes \in Seq(Nat)
    /\ Construct("from_memory", Data_Bytes(bytes), << bytes >>)

from_tree(tree) ==
    /\ tree \in Seq(Nat)
    /\ Construct("from_tree", Data_Tree(tree), << tree >>)

\* impl<T: Into<PathBuf>> From<T> for Handle
Handle_from(path) ==
    /\ path \in Seq(Nat)
    /\ Construct("Handle::from", Data_Path(path), << path >>)

clone(i) ==
    /\ LiveHandle(i)
    /\ Room
    /\ Commit(Append(handles, Handle_clone(handles[i])), svg,
              Arc_clone(arcs, handles[i].data), born)
    /\ ret' = Ret("clone", << i >>)
    /\ UNCHANGED << NEXT_ID, issued, calls >>

drop(i) ==
    /\ LiveHandle(i)
    /\ Commit(Remove(handles, i), svg,
              Arc_drop(arcs, handles[i].data), BornAfterDrop(handles[i].data))
    /\ ret' = Ret("drop", << i >>)
    /\ UNCHANGED << NEXT_ID, issued, calls >>

\* The accessors and the comparisons take &self and change nothing; what
\* they return is Handle_id, Handle_data, Handle_hash and Handle_eq.
id(i) ==
    /\ LiveHandle(i)
    /\ UNCHANGED vars

data(i) ==
    /\ LiveHandle(i)
    /\ UNCHANGED vars

hash(i) ==
    /\ LiveHandle(i)
    /\ UNCHANGED vars

eq(i, j) ==
    /\ LiveHandle(i)
    /\ LiveHandle(j)
    /\ UNCHANGED vars

(***************************************************************************)
(* Svg                                                                     *)
(***************************************************************************)
\* Faulty variant: the numeric fields take f32's default.
Svg_new_zeroed(h) ==
    [handle |-> h, color |-> None, rotation |-> RotationZero, opacity |-> 0]

Svg_new(h) ==
    [handle |-> h, color |-> None, rotation |-> RotationZero,
     opacity |-> OpacityOne]

Svg_color(sv, c) == [sv EXCEPT !.color = Some(c)]

Svg_rotation(sv, r) == [sv EXCEPT !.rotation = r]

\* Faulty variant: the opacity is clamped to [0, 1].
Svg_opacity_clamped(sv, o) ==
    [sv EXCEPT !.opacity = IF o < 0 THEN 0 ELSE IF o > OpacityOne THEN OpacityOne ELSE o]

Svg_opacity(sv, o) == [sv EXCEPT !.opacity = o]

\* Svg::new(handle) with a Handle: the handle moves into the request.
new(i) ==
    /\ LiveHandle(i)
    /\ ~LiveSvg
    /\ Commit(Remove(handles, i), Svg_new(handles[i]),
              arcs, born)
    /\ calls' = NoCalls
    /\ ret' = Ret("Svg::new", << i >>)
    /\ UNCHANGED << NEXT_ID, issued >>

\* Svg::new(path): handle.into() goes through From<T> for Handle.
new_path(path) ==
    /\ ~LiveSvg
    /\ \E k \in 1..MaxArcs :
        /\ FreeArcSlot(k)
        /\ LET h == from_data(Data_Path(path), NEXT_ID, k) IN
            /\ Commit(handles, Svg_new(h), Arc_new(arcs, k, Data_Path(path)),
                      [born EXCEPT
                          ![k] = [id |-> h.id, data |-> Data_Path(path)]])
            /\ issued' = issued \cup {h.id}
    /\ calls' = NoCalls
    /\ ret' = Ret("Svg::new(path)", << path >>)
    /\ UNCHANGED NEXT_ID

\* Faulty variant: the conversion takes the handle instead of cloning it.
Svg_from_taken(i) ==
    /\ LiveHandle(i)
    /\ ~LiveSvg
    /\ Commit(Remove(handles, i), Svg_new(handles[i]), arcs, born)
    /\ calls' = NoCalls
    /\ ret' = Ret("Svg::from", << i >>)
    /\ UNCHANGED << NEXT_ID, issued >>

\* impl From<&Handle> for Svg
Svg_from(i) ==
    /\ LiveHandle(i)
    /\ ~LiveSvg
    /\ Commit(handles, Svg_new(Handle_clone(handles[i])),
              Arc_clone(arcs, handles[i].data), born)
    /\ calls' = NoCalls
    /\ ret' = Ret("Svg::from", << i >>)
    /\ UNCHANGED << NEXT_ID, issued >>

color(c) ==
    /\ LiveSvg
    /\ svg' = Svg_color(svg, c)
    /\ calls' = [calls EXCEPT !.color = << c >>]
    /\ ret' = Ret("color", << c >>)
    /\ UNCHANGED << handles, arcs, NEXT_ID, issued, born >>

rotation(r) ==
    /\ LiveSvg
    /\ svg' = Svg_rotation(svg, r)
    /\ calls' = [calls EXCEPT !.rotation = << r >>]
    /\ ret' = Ret("rotation", << r >>)
    /\ UNCHANGED << handles, arcs, NEXT_ID, issued, born >>

opacity(o) ==
    /\ LiveSvg
    /\ svg' = Svg_opacity(svg, o)
    /\ calls' = [calls EXCEPT !.opacity = << o >>]
    /\ ret' = Ret("opacity", << o >>)
    /\ UNCHANGED << handles, arcs, NEXT_ID, issued, born >>

\* The request is consumed (draw_svg takes it by value) and dropped.
drop_svg ==
    /\ LiveSvg
    /\ Commit(handles, NoSvg, Arc_drop(arcs, svg.handle.data),
              BornAfterDrop(svg.handle.data))
    /\ calls' = NoCalls
    /\ ret' = Ret("drop_svg", <<>>)
    /\ UNCHANGED << NEXT_ID, issued >>

(***************************************************************************)
(* Specifications.  Spec: every way to build, share, compare and drop      *)
(* handles, and to wrap one in a default Svg.  SpecSvg: the Svg builder    *)
(* over path handles and their clones.                                     *)
(***************************************************************************)
Next ==
    \/ \E p \in PathInputs, e \in BOOLEAN : from_path(p, e)
    \/ \E b \in ByteInputs : from_memory(b)
    \/ \E t \in TreeInputs : from_tree(t)
    \/ \E p \in PathInputs : Handle_from(p)
    \/ \E i \in 1..MaxHandles : clone(i)
    \/ \E i \in 1..MaxHandles : drop(i)
    \/ \E i \in 1..MaxHandles : id(i)
    \/ \E i \in 1..MaxHandles : data(i)
    \/ \E i \in 1..MaxHandles : hash(i)
    \/ \E i, j \in 1..MaxHandles : eq(i, j)
    \/ \E i \in 1..MaxHandles : new(i)
    \/ \E p \in PathInputs : new_path(p)
    \/ \E i \in 1..MaxHandles : Svg_from(i)
    \/ drop_svg

Spec == Init /\ [][Next]_vars

NextSvg ==
    \/ \E p \in PathInputs, e \in BOOLEAN : from_path(p, e)
    \/ \E i \in 1..MaxHandles : clone(i)
    \/ \E i \in 1..MaxHandles : id(i)
    \/ \E i \in 1..MaxHandles : data(i)
    \/ \E i \in 1..MaxHandles : drop(i)
    \/ \E i \in 1..MaxHandles : new(i)
    \/ \E p \in PathInputs : new_path(p)
    \/ \E i \in 1..MaxHandles : Svg_from(i)
    \/ \E c \in ColorInputs : color(c)
    \/ \E r \in RotationInputs : rotation(r)
    \/ \E o \in OpacityInputs : opacity(o)
    \/ drop_svg

SpecSvg == Init /\ [][NextSvg]_vars

(***************************************************************************)
(* What the claims speak of.                                               *)
(***************************************************************************)
\* Every live Handle value: the callers' handles, then the Svg's handle.
Holders == handles \o (IF LiveSvg THEN << svg.handle >> ELSE <<>>)

HolderSet == { Holders[n] : n \in DOMAIN Holders }

Payload(h) == Handle_data(h, arcs)

\* The keys of a cache keyed on Id that holds the given handles.
CacheKeys(hs) == { Handle_id(h) : h \in hs }

\* The handle the last constructor returned.
Built == handles[Len(handles)]

PathHash(p) == Hasher(Normalize(p))

(***************************************************************************)
(* C1.  Two handles built independently from the same path, by from_path   *)
(* or by the path-like conversion, whatever was built in between, have     *)
(* equal Ids, compare equal and take one entry of a cache keyed on Id.     *)
(***************************************************************************)
C1_SamePathSameId ==
    \A a, b \in HolderSet :
        (/\ Payload(a).variant = "Path"
         /\ Payload(b).variant = "Path"
         /\ Payload(a).content = Payload(b).content)
        => /\ Handle_id(a) = Handle_id(b)
           /\ Handle_eq(a, b)
           /\ Cardinality(CacheKeys({a, b})) = 1

C1_Witness ==
    /\ Len(handles) = 2
    /\ handles[1].data # handles[2].data
    /\ Payload(handles[1]) = Data_Path(<< 2, CurDir, 1 >>)
    /\ Payload(handles[2]) = Data_Path(<< 2, CurDir, 1 >>)
    /\ ret.op = "Handle::from"
    /\ NEXT_ID > 0

(***************************************************************************)
(* C2.  A handle built by from_memory or from_tree has an Id that was      *)
(* never issued before, path-derived or unique, also when the same bytes   *)
(* or tree were given before; a cache keyed on Id gains one entry.         *)
(***************************************************************************)
C2_UniqueIsFresh ==
    [][ NEXT_ID' # NEXT_ID =>
          LET h == handles'[Len(handles')]
              others == { Holders'[n] : n \in DOMAIN Holders' } \ {h}
          IN  /\ ret'.op \in {"from_memory", "from_tree"}
              /\ Handle_id(h) \notin issued
              /\ CacheKeys(HolderSet) \subseteq issued
              /\ \A o \in others : Handle_id(o) # Handle_id(h)
              /\ Cardinality(CacheKeys(others \cup {h}))
                    = Cardinality(CacheKeys(others)) + 1 ]_vars

C2_Witness ==
    /\ Len(handles) = 2
    /\ ret.op = "from_memory"
    /\ Payload(handles[1]) = Payload(handles[2])
    /\ Payload(handles[1]).variant = "Bytes"
    /\ Handle_id(handles[1]) # Handle_id(handles[2])
    /\ \E x \in issued : x.kind = "Hash"

(***************************************************************************)
(* C3.  a == b exactly when a.id() == b.id(); equal Ids hash alike; the    *)
(* payload takes no part: equal Id with different Data is equal, identical *)
(* Data with different Id is not.                                          *)
(***************************************************************************)
C3_EqualityIsIdEquality ==
    \A a, b \in HolderSet :
        /\ Handle_eq(a, b) <=> (Handle_id(a) = Handle_id(b))
        /\ Handle_id(a) = Handle_id(b) =>
              \A st \in { <<>>, << "seed" >> } :
                  Handle_hash(a, st) = Handle_hash(b, st)
        /\ (Handle_id(a) = Handle_id(b) /\ Payload(a) # Payload(b))
              => Handle_eq(a, b)
        /\ (Handle_id(a) # Handle_id(b) /\ Payload(a) = Payload(b))
              => ~Handle_eq(a, b)

C3_Witness ==
    \E a, b \in HolderSet :
        /\ Handle_id(a) = Handle_id(b)
        /\ Payload(a) # Payload(b)
        /\ Handle_eq(a, b)
        /\ Handle_hash(a, <<>>) = Handle_hash(b, <<>>)

(***************************************************************************)
(* C4.  id() returns the Id the handle was constructed with, for as long   *)
(* as the handle lives, and every clone has that Id and the same Data.     *)
(***************************************************************************)
C4_IdStableAcrossClones ==
    /\ \A h \in HolderSet :
          /\ h.data \in 1..MaxArcs
          /\ Handle_id(h) = born[h.data].id
          /\ Handle_id(h) \in issued
    /\ \A a, b \in HolderSet :
          a.data = b.data =>
              /\ Handle_id(a) = Handle_id(b)
              /\ Payload(a) = Payload(b)
              /\ Payload(a) = born[a.data].data

C4_Witness ==
    /\ ret.op = "drop"
    /\ Len(handles) = 1
    /\ LiveSvg
    /\ svg.handle.data = handles[1].data
    /\ Handle_id(svg.handle) = Id_unique(0)
    /\ NEXT_ID = 2

(***************************************************************************)
(* C5.  Svg::new(h) is the request with handle h, no color, rotation 0     *)
(* and opacity 1.                                                          *)
(***************************************************************************)
C5_NewIsDefault ==
    [][ /\ (~LiveSvg /\ ret'.op = "Svg::new") =>
              LET h == handles[ret'.arg[1]] IN
              /\ Handle_id(svg'.handle) = Handle_id(h)
              /\ arcs'[svg'.handle.data] = arcs[h.data]
              /\ svg'.color = None
              /\ svg'.rotation = 0
              /\ svg'.opacity = 100
        /\ (~LiveSvg /\ ret'.op = "Svg::new(path)") =>
              /\ Handle_id(svg'.handle) = Id_path(ret'.arg[1])
              /\ arcs'[svg'.handle.data].data = Data_Path(ret'.arg[1])
              /\ svg'.color = None
              /\ svg'.rotation = 0
              /\ svg'.opacity = 100 ]_vars

C5_Witness ==
    /\ ret.op = "Svg::new"
    /\ LiveSvg
    /\ Payload(svg.handle).variant = "Bytes"
    /\ Len(handles) = 1
    /\ handles[1].data = svg.handle.data

(***************************************************************************)
(* C6.  A builder call changes its own field and nothing else, stores the  *)
(* value as given, and so after any chain every field holds the value of   *)
(* the last call that targeted it, or its default, and the handle is the   *)
(* one given to new.                                                       *)
(***************************************************************************)
C6_Chain ==
    LiveSvg =>
        /\ svg.color = calls.color
        /\ svg.rotation =
              (IF calls.rotation = None THEN 0 ELSE calls.rotation[1])
        /\ svg.opacity =
              (IF calls.opacity = None THEN 100 ELSE calls.opacity[1])
        /\ Handle_id(svg.handle) = born[svg.handle.data].id
        /\ Payload(svg.handle) = born[svg.handle.data].data

C6_Frame ==
    /\ ret'.op = "color" =>
          /\ svg'.color = << ret'.arg[1] >>
          /\ svg'.handle = svg.handle
          /\ svg'.rotation = svg.rotation
          /\ svg'.opacity = svg.opacity
    /\ ret'.op = "rotation" =>
          /\ svg'.rotation = ret'.arg[1]
          /\ svg'.handle = svg.handle
          /\ svg'.color = svg.color
          /\ svg'.opacity = svg.opacity
    /\ ret'.op = "opacity" =>
          /\ svg'.opacity = ret'.arg[1]
          /\ svg'.handle = svg.handle
          /\ svg'.color = svg.color
          /\ svg'.rotation = svg.rotation
    /\ ret'.op \in {"color", "rotation", "opacity"} =>
          /\ handles' = handles
          /\ arcs' = arcs
          /\ issued' = issued
          /\ NEXT_ID' = NEXT_ID

C6_BuildersTouchOneField == []C6_Chain /\ [][C6_Frame]_vars

C6_Witness ==
    /\ LiveSvg
    /\ ret.op = "rotation"
    /\ svg.color = Some("RED")
    /\ svg.rotation = 157
    /\ svg.opacity = 150
    /\ Payload(svg.handle) = Data_Path(<< 1 >>)

(***************************************************************************)
(* C7.  As claimed: handles built from distinct paths have different Ids.  *)
(***************************************************************************)
C7_DistinctPathsDistinctIds ==
    \A a, b \in HolderSet :
        (/\ Payload(a).variant = "Path"
         /\ Payload(b).variant = "Path"
         /\ Payload(a).content # Payload(b).content)
        => /\ Handle_id(a) # Handle_id(b)
           /\ ~Handle_eq(a, b)
           /\ Cardinality(CacheKeys({a, b})) = 2

(***************************************************************************)
(* C7, amended.  Handles built from distinct paths have different Ids      *)
(* exactly when the hashes of the normalized paths differ; then they are   *)
(* unequal and take two cache entries, otherwise they are equal and take   *)
(* one.                                                                    *)
(***************************************************************************)
C7_DistinctHashesDistinctIds ==
    \A a, b \in HolderSet :
        (/\ Payload(a).variant = "Path"
         /\ Payload(b).variant = "Path"
         /\ Payload(a).content # Payload(b).content)
        => LET differ == PathHash(Payload(a).content)
                            # PathHash(Payload(b).content)
           IN  /\ Handle_id(a) # Handle_id(b) <=> differ
               /\ Handle_eq(a, b) <=> ~differ
               /\ Cardinality(CacheKeys({a, b})) = (IF differ THEN 2 ELSE 1)

C7_Witness ==
    \E a, b \in HolderSet :
        /\ Payload(a) = Data_Path(<< 1 >>)
        /\ Payload(b) = Data_Path(<< 2 >>)
        /\ Handle_id(a) # Handle_id(b)
        /\ ~Handle_eq(a, b)

(***************************************************************************)
(* C8.  No constructor fails: whatever the input, the call ends with a new  *)
(* handle; from_path builds Data::Path of the given path whether or not a  *)
(* file is there, from_memory keeps the bytes without looking at them.     *)
(***************************************************************************)
C8_ConstructorsNeverFail ==
    /\ ret.op \in {"from_path", "from_memory", "from_tree", "Handle::from"} =>
          /\ Len(handles) > 0
          /\ arcs[Built.data].strong = 1
          /\ born[Built.data] = [id |-> Handle_id(Built), data |-> Payload(Built)]
    /\ ret.op = "from_path" =>
          /\ Len(handles) > 0
          /\ Payload(Built) = Data_Path(ret.arg[1])
          /\ Handle_id(Built) = Id_path(ret.arg[1])
    /\ ret.op = "from_memory" =>
          /\ Len(handles) > 0
          /\ Payload(Built) = Data_Bytes(ret.arg[1])
          /\ Handle_id(Built) = Id_unique(NEXT_ID - 1)
    /\ ret.op = "from_tree" =>
          /\ Len(handles) > 0
          /\ Payload(Built) = Data_Tree(ret.arg[1])
          /\ Handle_id(Built) = Id_unique(NEXT_ID - 1)

C8_Witness ==
    /\ ret.op = "from_path"
    /\ ret.arg[2] = FALSE
    /\ Len(handles) = 2
    /\ Payload(handles[1]).variant = "Bytes"
    /\ Payload(Built) = Data_Path(<< 2, 1 >>)

(***************************************************************************)
(* C9.  Svg::from(&h) is the default request for h: same Id, the same      *)
(* shared Data, no color, rotation 0, opacity 1; no Id is issued and h is  *)
(* left as it was.                                                         *)
(***************************************************************************)
C9_FromRefIsDefault ==
    [][ (~LiveSvg /\ ret'.op = "Svg::from") =>
          LET i == ret'.arg[1] IN
          /\ Len(handles') = Len(handles)
          /\ Handle_id(svg'.handle) = Handle_id(handles[i])
          /\ svg'.handle.data = handles'[i].data
          /\ arcs'[svg'.handle.data].data = arcs[handles[i].data].data
          /\ arcs'[svg'.handle.data].strong = arcs[handles[i].data].strong + 1
          /\ svg'.color = None
          /\ svg'.rotation = 0
          /\ svg'.opacity = 100
          /\ issued' = issued
          /\ NEXT_ID' = NEXT_ID
          /\ \A n \in DOMAIN handles :
                /\ Handle_id(handles'[n]) = Handle_id(handles[n])
                /\ Handle_data(handles'[n], arcs') = Handle_data(handles[n], arcs)
      ]_vars

C9_Witness ==
    /\ ret.op = "Svg::from"
    /\ ret.arg[1] = 2
    /\ Len(handles) = 2
    /\ svg.handle.data = handles[2].data
    /\ handles[1].data # handles[2].data
    /\ Payload(svg.handle).variant = "Tree"

(***************************************************************************)
(* C10.  The payload of a handle is never changed: data() on every live    *)
(* clone is the variant and content the constructor was given, and the     *)
(* payload is there as long as one clone lives.                            *)
(***************************************************************************)
C10_PayloadImmutable ==
    /\ \A h \in HolderSet :
          /\ h.data \in 1..MaxArcs
          /\ arcs[h.data].strong >= 1
          /\ Payload(h) = born[h.data].data
          /\ Payload(h).variant \in {"Path", "Bytes", "Tree"}
          /\ Payload(h).variant = "Path" => Payload(h).content \in PathInputs
          /\ Payload(h).variant = "Bytes" => Payload(h).content \in ByteInputs
          /\ Payload(h).variant = "Tree" => Payload(h).content \in TreeInputs
    /\ \A k \in 1..MaxArcs :
          arcs[k].strong
             = Cardinality({ n \in DOMAIN Holders : Holders[n].data = k })

C10_Witness ==
    /\ ret.op = "drop_svg"
    /\ Len(handles) = 2
    /\ handles[1].data = handles[2].data
    /\ arcs[handles[1].data].strong = 2
    /\ Payload(handles[2]) = Data_Tree(<< 1 >>)

=============================================================================
